---- MODULE Spec2Model ----
(***************************************************************************)
(* Model of mediawiki/mediawikipage_properties.py: the MediaWikiPage       *)
(* property descriptors (lazy, cached page attributes), the continued      *)
(* query walker, the result accumulator and the planner that combines      *)
(* several properties into query groups.                                   *)
(*                                                                         *)
(* Python dicts are functions from key strings to values, parameter values *)
(* are strings (so that the substring test and the pipe concatenation of   *)
(* the planner are computed as Python computes them), URLs and texts are   *)
(* small integers (so that sorted() is computed).                          *)
(***************************************************************************)
EXTENDS Integers, Sequences, FiniteSets, TLC

VARIABLES
    query_params,   \* the class attribute query_params of each class
    attrs,          \* the instance attributes of each page: holder name -> value
    server,         \* the responses the Requester has still scripted
    pc,             \* "idle", or "walk" inside a _continued_query loop
    op,             \* the operation in progress, or the last one
    before,         \* the attributes of op's page when op started
    groups,         \* the query groups of op
    gi,             \* the group being walked
    last_cont,      \* last_cont of the walk in progress
    script,         \* what the Requester had scripted when the walk started
    nround,         \* the requests the walk has issued
    yielded,        \* the fragments the walk has yielded
    reqs,           \* the requests op has issued: group and parameters
    outcome,        \* how op ended: "value", "done" or the exception raised
    ret,            \* the value op returned
    starts,         \* the walks started by reads, per page and property
    first,          \* the first value a read returned, per page and holder name
    declared,       \* the class attributes query_params as declared
    nops            \* the operations started

vars == <<query_params, attrs, server, pc, op, before, groups, gi, last_cont,
          script, nround, yielded, reqs, outcome, ret, starts, first, declared,
          nops>>

(***************************************************************************)
(* Bounds.                                                                 *)
(***************************************************************************)
\* number of operations (reads, batch reads, assignments) in one behaviour
MaxOps == 2
\* number of properties handed to one batch read / one planner call
MaxBatch == 2
\* number of responses the Requester has scripted for one walk
MaxRounds == 2
\* number of planner calls in one behaviour of SpecPlan
MaxPlans == 2
\* number of fragments of the iterator handed to _parse_continued_query
MaxFrags == 3

(***************************************************************************)
(* Python dicts and strings.                                               *)
(***************************************************************************)
EmptyDict == [k \in {} |-> ""]

\* d.update(e), as a value
Update(d, e) ==
    [k \in (DOMAIN d) \cup (DOMAIN e) |-> IF k \in DOMAIN e THEN e[k] ELSE d[k]]

\* s in t, for two Python strings
IsSubstring(s, t) ==
    \E i \in 0..(Len(t) - Len(s)) : SubSeq(t, i + 1, i + Len(s)) = s

Digit == <<"0", "1", "2", "3", "4", "5", "6", "7", "8", "9">>

RECURSIVE NatStr(_)
NatStr(n) ==
    IF n < 10 THEN Digit[n + 1] ELSE NatStr(n \div 10) \o Digit[(n % 10) + 1]

\* the decimal form of an integer parameter value
NumStr(n) == IF n < 0 THEN "-" \o NatStr(0 - n) ELSE NatStr(n)

RECURSIVE Insert(_, _)
Insert(x, s) ==
    IF s = <<>> THEN <<x>>
    ELSE IF x <= Head(s) THEN <<x>> \o s
    ELSE <<Head(s)>> \o Insert(x, Tail(s))

\* sorted(s)
RECURSIVE Sorted(_)
Sorted(s) == IF s = <<>> THEN <<>> ELSE Insert(Head(s), Sorted(Tail(s)))

(***************************************************************************)
(* Page entities: "p1" has a title and a page id, "p2" only a page id.     *)
(***************************************************************************)
Pages == {"p1", "p2"}

HasTitle(page_instance) == page_instance = "p1"

Title(page_instance) == "Cat"

PageId(page_instance) == IF page_instance = "p1" THEN "1" ELSE "2"

(***************************************************************************)
(* Property definitions.  The four descriptors of the module, and one      *)
(* descriptor UserA declared through the same base class, whose template   *)
(* SpecPlan draws from UserTemplates.                                      *)
(***************************************************************************)
ModuleProps == {"Content", "Summary", "Images", "References"}

UserProps == {"UserA"}

Props == ModuleProps \cup UserProps

\* Summary declares no query_params of its own: it reads and writes the
\* dict of the base class
Owner(prop) == IF prop = "Summary" THEN "MediaWikiPageProperty" ELSE prop

Owners == {Owner(p) : p \in Props}

ValHolderName(prop) ==
    CASE prop = "Content" -> "_content"
      [] prop = "Summary" -> "_summary"
      [] prop = "Images" -> "_images"
      [] prop = "References" -> "_references"
      [] prop = "UserA" -> "_user_a"

BaseQueryParams == EmptyDict

ContentQueryParams == [prop |-> "extracts", explaintext |-> ""]

ImagesQueryParams ==
    [generator |-> "images", gimlimit |-> "max", prop |-> "imageinfo",
     iiprop |-> "url"]

ReferencesQueryParams == [prop |-> "extlinks", ellimit |-> "max"]

UserTemplates ==
    { [rvprop |-> "ids"],
      [prop |-> "revisions", rvprop |-> "ids"],
      [prop |-> "extracts", exlimit |-> "1"],
      [prop |-> "links", pllimit |-> "max"],
      [ellimit |-> "max"],
      [generator |-> "links", gpllimit |-> "max"] }

\* the class attributes query_params as declared
DeclaredQueryParams(ta) ==
    [o \in Owners |->
        CASE o = "MediaWikiPageProperty" -> BaseQueryParams
          [] o = "Content" -> ContentQueryParams
          [] o = "Images" -> ImagesQueryParams
          [] o = "References" -> ReferencesQueryParams
          [] o = "UserA" -> ta]

(***************************************************************************)
(* Query parameters of a property.  Each operator returns the dict the     *)
(* Python method returns (params) and the class dicts after the call (qp): *)
(* get_query_params updates the class dict in place and returns it.        *)
(***************************************************************************)
TitleQueryParam(page_instance) ==
    IF HasTitle(page_instance) THEN [titles |-> Title(page_instance)]
    ELSE [pageids |-> PageId(page_instance)]

BaseGetQueryParams(prop, page_instance, qp) ==
    LET d == Update(qp[Owner(prop)], TitleQueryParam(page_instance))
    IN  [params |-> d, qp |-> [qp EXCEPT ![Owner(prop)] = d]]

SummaryGetQueryParams(prop, page_instance, qp, sentences, chars) ==
    LET b == BaseGetQueryParams(prop, page_instance, qp)
        d1 == Update(b.params, [prop |-> "extracts", explaintext |-> ""])
        d2 == IF sentences # 0
              THEN Update(d1, [exsentences |->
                        NumStr(IF sentences > 10 THEN 10 ELSE sentences)])
              ELSE IF chars # 0
              THEN Update(d1, [exchars |->
                        NumStr(IF chars < 1 THEN 1 ELSE chars)])
              ELSE Update(d1, [exintro |-> ""])
    IN  [params |-> d2, qp |-> [qp EXCEPT ![Owner(prop)] = d2]]

\* mediawiki_page_property.get_query_params(page_instance)
GetQueryParams(prop, page_instance, qp) ==
    IF prop = "Summary"
    THEN SummaryGetQueryParams(prop, page_instance, qp, 0, 0)
    ELSE BaseGetQueryParams(prop, page_instance, qp)

HasGenerator(params) == "generator" \in DOMAIN params

(***************************************************************************)
(* The Requester.  A response is what wiki_request returns (or its         *)
(* failure): whether it has a 'query' section, which of two data sets the  *)
(* section carries, and whether it has a 'continue' section, with its      *)
(* value.  The Requester answers successive requests with the responses of *)
(* a prepared script, and without a 'query' section once the script is     *)
(* used up.                                                                *)
(***************************************************************************)
ContA == [gcontinue |-> "a"]

\* the responses, but for the data their 'query' section carries
ResponseKinds ==
    [fail : {FALSE}, hasQuery : {TRUE}, data : {0},
     hasContinue : {FALSE}, cont : {EmptyDict}]
    \cup [fail : {FALSE}, hasQuery : BOOLEAN, data : {0},
          hasContinue : {TRUE}, cont : {ContA}]
    \cup [fail : BOOLEAN, hasQuery : {FALSE}, data : {0},
          hasContinue : {FALSE}, cont : {EmptyDict}]

NoData ==
    [fail |-> FALSE, hasQuery |-> FALSE, data |-> 0, hasContinue |-> FALSE,
     cont |-> EmptyDict]

\* the scripts: the i-th response carries the i-th data set
Scripts ==
    UNION {{[i \in 1..n |-> [k[i] EXCEPT !.data = i]] : k \in [1..n -> ResponseKinds]}
           : n \in 1..MaxRounds}

\* the response to the next request
Respond(queue) == IF queue = <<>> THEN NoData ELSE Head(queue)

Scalar(x) == [isList |-> FALSE, v |-> x]

List(s) == [isList |-> TRUE, v |-> s]

\* request['query']['pages'] of a generator query: item id -> item, where an
\* item is the number of its URL, 0 for an item without imageinfo / url
GeneratorPages(data) ==
    IF data = 1 THEN << <<"10", Scalar(2)>>, <<"11", Scalar(1)>> >>
    ELSE << <<"12", Scalar(data + 1)>>, <<"13", Scalar(0)>> >>

\* request['query']['pages'][pageid] of a plain query: field name -> value
PageProps(data) ==
    IF data = 1
    THEN << <<"extract", Scalar(1)>>, <<"extlinks", List(<<2, 1>>)>> >>
    ELSE << <<"extract", Scalar(data)>>, <<"extlinks", List(<<data + 1>>)>> >>

(***************************************************************************)
(* _continued_query, one iteration of its loop at a time.                  *)
(***************************************************************************)
\* the test for the 'query' section left out
HasQuerySectionAlways(request) == TRUE

\* 'query' in request
HasQuerySection(request) == request.hasQuery

\* params = query_params.copy(); params.update(last_cont)
LoopParams(params, cont) == Update(params, cont)

\* the fragments one iteration yields from a response with a 'query' section
\* (the branch for a list-shaped 'pages' is not modelled: no response of the
\* Requester above has that shape)
Yields(params, request) ==
    IF HasGenerator(params)
    THEN LET pages == GeneratorPages(request.data)
         IN  [i \in 1..Len(pages) |-> <<params["generator"], pages[i][2]>>]
    ELSE PageProps(request.data)

\* whether the loop runs another iteration after the yields
LoopsAgain(request, cont) ==
    IF ~request.hasContinue \/ request.cont = cont
    THEN FALSE
    ELSE FALSE

(***************************************************************************)
(* _parse_continued_query: a defaultdict from field name to list.          *)
(***************************************************************************)
EmptyData == [k \in {} |-> <<>>]

Lookup(query_data, q_prop) ==
    IF q_prop \in DOMAIN query_data THEN query_data[q_prop] ELSE <<>>

\* a plain dict assignment in place of the defaultdict's += and append
RECURSIVE ParseContinuedQueryOverwrites(_)
ParseContinuedQueryOverwrites(frags) ==
    IF frags = <<>> THEN EmptyData
    ELSE LET earlier ==
                 ParseContinuedQueryOverwrites(SubSeq(frags, 1, Len(frags) - 1))
             q_prop == frags[Len(frags)][1]
             q_prop_val == frags[Len(frags)][2]
             new == IF q_prop_val.isList THEN q_prop_val.v
                    ELSE <<q_prop_val.v>>
         IN  [k \in (DOMAIN earlier) \cup {q_prop} |->
                 IF k = q_prop THEN new ELSE earlier[k]]

RECURSIVE ParseContinuedQuery(_)
ParseContinuedQuery(frags) ==
    IF frags = <<>> THEN EmptyData
    ELSE LET earlier == ParseContinuedQuery(SubSeq(frags, 1, Len(frags) - 1))
             q_prop == frags[Len(frags)][1]
             q_prop_val == frags[Len(frags)][2]
             old == Lookup(earlier, q_prop)
             new == IF q_prop_val.isList THEN old \o q_prop_val.v
                    ELSE Append(old, q_prop_val.v)
         IN  [k \in (DOMAIN earlier) \cup {q_prop} |->
                 IF k = q_prop THEN new ELSE earlier[k]]

(***************************************************************************)
(* parse_query_data of each property: the value, or the exception raised.  *)
(***************************************************************************)
Value(x) == [raised |-> "", val |-> x]

Raised(e) == [raised |-> e, val |-> 0]

HasUrl(page) == page > 0

ParseQueryData(prop, query_data) ==
    CASE prop \in {"Content", "Summary"} ->
            IF Lookup(query_data, "extract") = <<>> THEN Raised("IndexError")
            ELSE Value(Lookup(query_data, "extract")[1])
      [] prop = "Images" ->
            Value(Sorted(SelectSeq(Lookup(query_data, "images"), HasUrl)))
      [] prop = "References" ->
            Value(Sorted(Lookup(query_data, "extlinks")))
      [] OTHER -> Raised("NotImplementedError")

(***************************************************************************)
(* The planner: _check_for_prop_conflict and combine_query_params.         *)
(***************************************************************************)
CheckForPropConflictAlwaysFalse(new_query_params, collected_query_params) ==
    FALSE

CheckForPropConflict(new_query_params, collected_query_params) ==
    \E new_param \in DOMAIN new_query_params :
        /\ new_param \in DOMAIN collected_query_params
        /\ IsSubstring(new_query_params[new_param],
                       collected_query_params[new_param])

\* the loop that adds a property's parameters to main_query_params
MergeParams(main_query_params, params) ==
    [k \in (DOMAIN main_query_params) \cup (DOMAIN params) |->
        IF k \notin DOMAIN params THEN main_query_params[k]
        ELSE IF k \in DOMAIN main_query_params
        THEN main_query_params[k] \o "|" \o params[k]
        ELSE params[k]]

\* the planner before any property is processed
PlanInit(qp) ==
    [qp |-> qp, main_query_params |-> EmptyDict, main_query_properties |-> {},
     dedicated |-> <<>>]

\* the generator branch left out
CombineStepNoGeneratorBranch(st, prop, page_instance) ==
    LET r == GetQueryParams(prop, page_instance, st.qp)
    IN  IF CheckForPropConflict(r.params, st.main_query_params)
        THEN [st EXCEPT !.qp = r.qp, !.dedicated = Append(@, prop)]
        ELSE [st EXCEPT !.qp = r.qp,
                        !.main_query_params = MergeParams(@, r.params),
                        !.main_query_properties =
                            IF DOMAIN r.params = {} THEN @ ELSE @ \cup {prop}]

\* the continue of the conflict branch left out
CombineStepNoContinue(st, prop, page_instance) ==
    LET r == GetQueryParams(prop, page_instance, st.qp)
    IN  IF HasGenerator(r.params)
        THEN [st EXCEPT !.qp = r.qp, !.dedicated = Append(@, prop)]
        ELSE [st EXCEPT !.qp = r.qp,
                        !.dedicated =
                            IF CheckForPropConflict(r.params,
                                                    st.main_query_params)
                            THEN Append(@, prop) ELSE @,
                        !.main_query_params = MergeParams(@, r.params),
                        !.main_query_properties =
                            IF DOMAIN r.params = {} THEN @ ELSE @ \cup {prop}]

\* one iteration of the loop over mediawiki_page_properties.  A dedicated
\* group holds the dict get_query_params returned, which is the class dict
\* itself: the planner records the property and reads the dict at the end.
CombineStep(st, prop, page_instance) ==
    LET r == GetQueryParams(prop, page_instance, st.qp)
    IN  IF HasGenerator(r.params)
        THEN [st EXCEPT !.qp = r.qp, !.dedicated = Append(@, prop)]
        ELSE IF CheckForPropConflict(r.params, st.main_query_params)
        THEN [st EXCEPT !.qp = r.qp, !.dedicated = Append(@, prop)]
        ELSE [st EXCEPT !.qp = r.qp,
                        !.main_query_params = MergeParams(@, r.params),
                        !.main_query_properties =
                            IF DOMAIN r.params = {} THEN @ ELSE @ \cup {prop}]

RECURSIVE CombineLoop(_, _, _)
CombineLoop(st, props, page_instance) ==
    IF props = <<>> THEN st
    ELSE CombineLoop(CombineStep(st, Head(props), page_instance), Tail(props),
                     page_instance)

\* combine_query_params: the groups, and the class dicts after the call
CombineQueryParams(props, page_instance, qp) ==
    LET st == CombineLoop(PlanInit(qp), props, page_instance)
    IN  [qp |-> st.qp,
         groups |->
            << [query_params |-> st.main_query_params,
                properties |-> st.main_query_properties] >>
            \o [i \in 1..Len(st.dedicated) |->
                    [query_params |-> st.qp[Owner(st.dedicated[i])],
                     properties |-> {st.dedicated[i]}]]]

(***************************************************************************)
(* The operations on a page.                                               *)
(***************************************************************************)
NoAttrs == [k \in {} |-> 0]

HasAttrNever(page_attrs, name) == FALSE

\* hasattr(page_instance, name)
HasAttr(page_attrs, name) == name \in DOMAIN page_attrs

\* setattr(page_instance, name, value)
SetAttr(page_attrs, name, value) ==
    [k \in (DOMAIN page_attrs) \cup {name} |->
        IF k = name THEN value ELSE page_attrs[k]]

\* the orders in which a set of properties can be iterated
Orders(S) ==
    {o \in [1..Cardinality(S) -> S] : \A i, j \in DOMAIN o : i # j => o[i] # o[j]}

\* the loop that stores nothing
StoreAllNothing(order, query_data, page_attrs) ==
    [attrs |-> page_attrs, raised |-> ""]

\* the loop over a group's properties in get_batch_properties: each value is
\* extracted and stored, until an extraction raises
RECURSIVE StoreAll(_, _, _)
StoreAll(order, query_data, page_attrs) ==
    IF order = <<>> THEN [attrs |-> page_attrs, raised |-> ""]
    ELSE LET result == ParseQueryData(Head(order), query_data)
         IN  IF result.raised # ""
             THEN [attrs |-> page_attrs, raised |-> result.raised]
             ELSE StoreAll(Tail(order), query_data,
                           SetAttr(page_attrs, ValHolderName(Head(order)),
                                   result.val))

\* sequences of distinct properties, at most MaxBatch long
Collections(S) ==
    {c \in UNION {[1..n -> S] : n \in 1..MaxBatch} :
        \A i, j \in DOMAIN c : i # j => c[i] # c[j]}

NoGroups == << >>

\* the record of the first values returned, after a read returned value
Returned(firsts, page_instance, prop, value) ==
    IF ValHolderName(prop) \in DOMAIN firsts[page_instance] THEN firsts
    ELSE [firsts EXCEPT ![page_instance] =
            SetAttr(@, ValHolderName(prop), value)]

NoOp == [kind |-> "none", page |-> "p1", props |-> <<>>]

\* what every operation sets when it starts
Begin(kind, page_instance, props) ==
    /\ pc = "idle"
    /\ nops < MaxOps
    /\ nops' = nops + 1
    /\ op' = [kind |-> kind, page |-> page_instance, props |-> props]
    /\ before' = attrs[page_instance]
    /\ UNCHANGED declared

\* what an operation sets when it starts a walk
BeginWalk ==
    /\ pc' = "walk"
    /\ gi' = 1
    /\ last_cont' = EmptyDict
    /\ script' = server
    /\ nround' = 0
    /\ yielded' = <<>>
    /\ reqs' = <<>>
    /\ outcome' = ""
    /\ ret' = 0
    /\ UNCHANGED <<attrs, server>>

\* what an operation sets when it issues no request
NoWalk ==
    /\ pc' = "done"
    /\ groups' = NoGroups
    /\ gi' = 1
    /\ last_cont' = EmptyDict
    /\ script' = <<>>
    /\ nround' = 0
    /\ yielded' = <<>>
    /\ reqs' = <<>>
    /\ UNCHANGED <<query_params, server, starts>>

\* __get__ up to its first request: the stored value, or the start of the
\* walk for the property's query parameters
Get(page_instance, prop) ==
    /\ Begin("get", page_instance, <<prop>>)
    /\ IF HasAttr(attrs[page_instance], ValHolderName(prop))
       THEN /\ NoWalk
            /\ outcome' = "value"
            /\ ret' = attrs[page_instance][ValHolderName(prop)]
            /\ first' = Returned(first, page_instance, prop,
                                 attrs[page_instance][ValHolderName(prop)])
            /\ UNCHANGED attrs
       ELSE LET r == GetQueryParams(prop, page_instance, query_params)
            IN  /\ query_params' = r.qp
                /\ groups' = << [query_params |-> r.params,
                                 properties |-> {prop}] >>
                /\ starts' = [starts EXCEPT ![page_instance][prop] = @ + 1]
                /\ UNCHANGED first
                /\ BeginWalk

\* get_batch_properties up to its first request
GetBatchProperties(page_instance, props) ==
    /\ Begin("batch", page_instance, props)
    /\ LET r == CombineQueryParams(props, page_instance, query_params)
       IN  /\ query_params' = r.qp
           /\ groups' = r.groups
    /\ UNCHANGED <<starts, first>>
    /\ BeginWalk

\* an assignment that stores the value
SetStores(page_instance, prop, value) ==
    /\ Begin("set", page_instance, <<prop>>)
    /\ NoWalk
    /\ outcome' = "done"
    /\ ret' = 0
    /\ attrs' = [attrs EXCEPT ![page_instance] =
                    SetAttr(@, ValHolderName(prop), value)]
    /\ UNCHANGED first

\* __set__
Set(page_instance, prop, value) ==
    /\ Begin("set", page_instance, <<prop>>)
    /\ NoWalk
    /\ outcome' = "AttributeError"
    /\ ret' = 0
    /\ UNCHANGED <<attrs, first>>

\* the values an assignment may try to store
SetValues(prop) == IF prop \in {"Content", "Summary"} THEN {9} ELSE {<<9>>}

\* One iteration of the loop of _continued_query for the group being
\* walked: the request, the response, the yields, and, when the loop ends,
\* the rest of the caller: the accumulation, the extraction, the setattr
\* and, in a batch, the start of the next group's walk.
Round ==
    /\ pc = "walk"
    /\ LET base == groups[gi].query_params
           params == LoopParams(base, last_cont)
           request == Respond(server)
           frags == IF ~request.fail /\ HasQuerySection(request)
                    THEN yielded \o Yields(base, request) ELSE yielded
           again == /\ ~request.fail
                    /\ HasQuerySection(request)
                    /\ LoopsAgain(request, last_cont)
           query_data == ParseContinuedQuery(frags)
       IN  /\ server' = IF server = <<>> THEN <<>> ELSE Tail(server)
           /\ reqs' = Append(reqs, [group |-> gi, params |-> params])
           /\ UNCHANGED <<query_params, op, before, groups, starts, declared,
                          nops>>
           /\ IF request.fail
              THEN /\ pc' = "done"
                   /\ outcome' = "TransportError"
                   /\ nround' = nround + 1
                   /\ yielded' = frags
                   /\ UNCHANGED <<attrs, gi, last_cont, script, ret, first>>
              ELSE IF again
              THEN /\ last_cont' = request.cont
                   /\ nround' = nround + 1
                   /\ yielded' = frags
                   /\ UNCHANGED <<attrs, pc, gi, script, outcome, ret, first>>
              ELSE IF op.kind = "get"
              THEN LET result == ParseQueryData(op.props[1], query_data)
                   IN  /\ pc' = "done"
                       /\ nround' = nround + 1
                       /\ yielded' = frags
                       /\ outcome' = IF result.raised # "" THEN result.raised
                                     ELSE "value"
                       /\ ret' = result.val
                       /\ attrs' = IF result.raised # "" THEN attrs
                                   ELSE [attrs EXCEPT ![op.page] =
                                           SetAttr(@, ValHolderName(op.props[1]),
                                                   result.val)]
                       /\ first' = IF result.raised # "" THEN first
                                   ELSE Returned(first, op.page, op.props[1],
                                                 result.val)
                       /\ UNCHANGED <<gi, last_cont, script>>
              ELSE \E order \in Orders(groups[gi].properties) :
                     LET stored == StoreAll(order, query_data, attrs[op.page])
                         more == stored.raised = "" /\ gi < Len(groups)
                     IN  /\ attrs' = [attrs EXCEPT ![op.page] = stored.attrs]
                         /\ pc' = IF more THEN "walk" ELSE "done"
                         /\ gi' = IF more THEN gi + 1 ELSE gi
                         /\ script' = IF more THEN server' ELSE script
                         /\ nround' = IF more THEN 0 ELSE nround + 1
                         /\ yielded' = IF more THEN <<>> ELSE frags
                         /\ outcome' = IF more THEN ""
                                       ELSE IF stored.raised # ""
                                       THEN stored.raised ELSE "done"
                         /\ last_cont' = EmptyDict
                         /\ ret' = 0
                         /\ UNCHANGED first

\* the operation returns to its caller (or raises): its locals are gone
Return ==
    /\ pc = "done"
    /\ pc' = "idle"
    /\ op' = NoOp
    /\ before' = NoAttrs
    /\ groups' = NoGroups
    /\ gi' = 1
    /\ last_cont' = EmptyDict
    /\ script' = <<>>
    /\ nround' = 0
    /\ yielded' = <<>>
    /\ reqs' = <<>>
    /\ outcome' = ""
    /\ ret' = 0
    /\ UNCHANGED <<query_params, attrs, server, starts, first, declared, nops>>

\* the locals of no operation
NoLocals ==
    /\ pc = "idle"
    /\ op = NoOp
    /\ before = NoAttrs
    /\ groups = NoGroups
    /\ gi = 1
    /\ last_cont = EmptyDict
    /\ script = <<>>
    /\ nround = 0
    /\ yielded = <<>>
    /\ reqs = <<>>
    /\ outcome = ""
    /\ ret = 0

\* nothing cached, no walk started
NewPages ==
    /\ attrs = [p \in Pages |-> NoAttrs]
    /\ starts = [p \in Pages |-> [q \in ModuleProps |-> 0]]
    /\ first = [p \in Pages |-> NoAttrs]
    /\ declared = query_params
    /\ nops = 0

(***************************************************************************)
(* Spec: reads of and assignments to the properties of two pages.          *)
(***************************************************************************)
Init ==
    /\ query_params = DeclaredQueryParams([rvprop |-> "ids"])
    /\ server \in Scripts
    /\ NewPages
    /\ NoLocals

Next ==
    \/ \E p \in Pages, q \in ModuleProps : Get(p, q)
    \/ \E p \in Pages, q \in ModuleProps : \E v \in SetValues(q) : Set(p, q, v)
    \/ Round
    \/ Return

Spec == Init /\ [][Next]_vars

(***************************************************************************)
(* SpecBatch: reads and batch reads of the properties of one page.         *)
(***************************************************************************)
BatchPages == {"p1"}

NextBatch ==
    \/ \E p \in BatchPages, q \in ModuleProps : Get(p, q)
    \/ \E p \in BatchPages, c \in Collections(ModuleProps) :
            GetBatchProperties(p, c)
    \/ Round
    \/ Return

SpecBatch == Init /\ [][NextBatch]_vars

(***************************************************************************)
(* SpecPlan: combine_query_params called for collections of the module's   *)
(* properties and of a user-declared one, whose template is drawn from     *)
(* UserTemplates.                                                          *)
(***************************************************************************)
InitPlan ==
    /\ query_params \in {DeclaredQueryParams(ta) : ta \in UserTemplates}
    /\ server = <<>>
    /\ NewPages
    /\ NoLocals

\* combine_query_params(mediawiki_page_properties, page_instance)
Plan(page_instance, props) ==
    /\ pc = "idle"
    /\ nops < MaxPlans
    /\ nops' = nops + 1
    /\ pc' = "done"
    /\ op' = [kind |-> "plan", page |-> page_instance, props |-> props]
    /\ LET r == CombineQueryParams(props, page_instance, query_params)
       IN  /\ query_params' = r.qp
           /\ groups' = r.groups
    /\ UNCHANGED <<attrs, server, before, gi, last_cont, script, nround,
                   yielded, reqs, outcome, ret, starts, first, declared>>

NextPlan ==
    \/ \E p \in Pages, c \in Collections(Props) : Plan(p, c)
    \/ Return

SpecPlan == InitPlan /\ [][NextPlan]_vars

(***************************************************************************)
(* SpecAccum: _parse_continued_query applied to an iterator whose          *)
(* fragments are drawn from FragmentSeqs.                                  *)
(***************************************************************************)
FieldNames == {"x", "y"}

\* the values of a fragment: scalars and lists
FragmentValues ==
    {Scalar(1), Scalar(3), List(<<>>), List(<<1, 2>>), List(<<2>>)}

Fragments == {<<k, v>> : k \in FieldNames, v \in FragmentValues}

FragmentSeqs == UNION {[1..n -> Fragments] : n \in 0..MaxFrags}

\* `yielded` is what the iterator will yield
InitAccum ==
    /\ query_params = DeclaredQueryParams([rvprop |-> "ids"])
    /\ server = <<>>
    /\ NewPages
    /\ pc = "idle"
    /\ op = NoOp
    /\ before = NoAttrs
    /\ groups = NoGroups
    /\ gi = 1
    /\ last_cont = EmptyDict
    /\ script = <<>>
    /\ nround = 0
    /\ yielded \in FragmentSeqs
    /\ reqs = <<>>
    /\ outcome = ""
    /\ ret = 0

\* _parse_continued_query(query_iterator): the dict it returns
Accumulate ==
    /\ pc = "idle"
    /\ nops < MaxOps
    /\ nops' = nops + 1
    /\ pc' = "done"
    /\ op' = [kind |-> "parse", page |-> "p1", props |-> <<>>]
    /\ outcome' = "value"
    /\ ret' = ParseContinuedQuery(yielded)
    /\ UNCHANGED <<query_params, attrs, server, before, groups, gi, last_cont,
                   script, nround, yielded, reqs, starts, first, declared>>

NextAccum ==
    \/ Accumulate
    \/ Return

SpecAccum == InitAccum /\ [][NextAccum]_vars

(***************************************************************************)
(* SpecSummary: Summary.get_query_params called with call-time options on  *)
(* two pages.                                                              *)
(***************************************************************************)
\* the sentence counts and character counts of a call, 0 being the default
SentenceCounts == {0, 1, 10, 11}

CharCounts == {0, 1, 5}

\* summary.get_query_params(page_instance, sentences, chars): the dict it
\* returns is kept as the parameters of a group of the property
SummaryParams(page_instance, sentences, chars) ==
    /\ pc = "idle"
    /\ nops < MaxOps
    /\ nops' = nops + 1
    /\ pc' = "done"
    /\ op' = [kind |-> "params", page |-> page_instance,
              props |-> <<"Summary">>, sentences |-> sentences,
              chars |-> chars]
    /\ LET r == SummaryGetQueryParams("Summary", page_instance, query_params,
                                      sentences, chars)
       IN  /\ query_params' = r.qp
           /\ groups' = << [query_params |-> r.params,
                            properties |-> {"Summary"}] >>
    /\ UNCHANGED <<attrs, server, before, gi, last_cont, script, nround,
                   yielded, reqs, outcome, ret, starts, first, declared>>

NextSummary ==
    \/ \E p \in Pages, n \in SentenceCounts, c \in CharCounts :
            SummaryParams(p, n, c)
    \/ Return

SpecSummary == InitPlan /\ [][NextSummary]_vars

(***************************************************************************)
(* Properties of the continued query.                                      *)
(***************************************************************************)
\* a read has ended after walking
ReadWalked == pc = "done" /\ op.kind = "get" /\ nround > 0

\* a response with a 'query' section and a 'continue' section
Continues(r) == ~r.fail /\ r.hasQuery /\ r.hasContinue

\* the continuation-states of the requests of a walk that follows every new
\* 'continue' section of the script
RECURSIVE FollowedConts(_, _)
FollowedConts(queue, cont) ==
    LET r == Respond(queue)
    IN  <<cont>> \o (IF Continues(r) /\ r.cont # cont
                     THEN FollowedConts(Tail(queue), r.cont) ELSE <<>>)

\* the fragments of such a walk
RECURSIVE FollowedYields(_, _, _)
FollowedYields(queue, cont, params) ==
    LET r == Respond(queue)
    IN  IF r.fail \/ ~r.hasQuery THEN <<>>
        ELSE Yields(params, r)
             \o (IF r.hasContinue /\ r.cont # cont
                 THEN FollowedYields(Tail(queue), r.cont, params) ELSE <<>>)

\* C1: a walk follows every response that has a query section and a new
\* continuation section with another request, whose parameters are the base
\* parameters merged with that section, until a response has no query
\* section, no continuation section or a repeated one: the requests of a read
\* are those of all the rounds the Requester answers, and the fragments
\* yielded are those of all these rounds.
C1_WalkFollowsContinuation ==
    ReadWalked =>
        LET params == groups[1].query_params
            conts == FollowedConts(script, EmptyDict)
        IN  /\ reqs = [i \in 1..Len(conts) |->
                          [group |-> 1, params |-> Update(params, conts[i])]]
            /\ yielded = FollowedYields(script, EmptyDict, params)

\* round k of the script repeats the continuation section of round k - 1,
\* the first repetition of the script, every round up to k having a query
\* section
RepeatsAt(k) ==
    /\ k \in 2..Len(script)
    /\ \A i \in 1..k : Continues(script[i])
    /\ \A i \in 1..(k - 1) :
          script[i].cont # (IF i = 1 THEN EmptyDict ELSE script[i - 1].cont)
    /\ script[k].cont = script[k - 1].cont

\* the fragments of the first k rounds of the script
RECURSIVE RoundsYields(_, _)
RoundsYields(k, params) ==
    IF k = 0 THEN <<>>
    ELSE RoundsYields(k - 1, params) \o Yields(params, script[k])

\* C2: when round k's continuation section equals round k - 1's, the walk
\* yields exactly the fragments of rounds 1..k and stops after request k.
C2_StopsAtRepeatedToken ==
    ReadWalked =>
        \A k \in 1..Len(script) :
            RepeatsAt(k) =>
                /\ nround = k
                /\ yielded = RoundsYields(k, groups[1].query_params)

\* the response to request k of the walk
ResponseAt(k) == Respond(SubSeq(script, k, Len(script)))

\* the response to request k has no 'query' section
NoQueryAt(k) == ~ResponseAt(k).fail /\ ~ResponseAt(k).hasQuery

\* C17: when the response to request k of a walk has no query section, the
\* walk ends with that request, has yielded the fragments of the rounds
\* before it only, and the Requester's error is not raised, whether or not
\* the response has a continuation section.
C17_MissingQueryEndsWalk ==
    ReadWalked =>
        \A k \in 1..nround :
            NoQueryAt(k) =>
                /\ nround = k
                /\ yielded = RoundsYields(k - 1, groups[1].query_params)
                /\ outcome # "TransportError"

\* a walk has ended at a response with a continuation section and no query
\* section
C17_Witness ==
    /\ ReadWalked
    /\ NoQueryAt(nround)
    /\ ResponseAt(nround).hasContinue
    /\ Len(script) > nround
    /\ yielded = <<>>

(***************************************************************************)
(* Properties of the accumulator.                                          *)
(***************************************************************************)
Accumulated == pc = "done" /\ op.kind = "parse"

\* what one fragment contributes: its elements, or itself as one element
Contribution(q_prop_val) ==
    IF q_prop_val.isList THEN q_prop_val.v ELSE <<q_prop_val.v>>

\* the values seen for a field name, in arrival order
RECURSIVE ValuesSeen(_, _)
ValuesSeen(name, frags) ==
    IF frags = <<>> THEN <<>>
    ELSE (IF Head(frags)[1] = name THEN Contribution(Head(frags)[2]) ELSE <<>>)
         \o ValuesSeen(name, Tail(frags))

\* C13: the accumulated mapping has the field names of the fragments, and
\* sends each to the sequence of all values seen for it in arrival order, a
\* list-valued fragment contributing its elements one by one and a scalar
\* one element.
C13_AccumulatorFlattening ==
    Accumulated =>
        /\ DOMAIN ret = {yielded[i][1] : i \in DOMAIN yielded}
        /\ \A name \in DOMAIN ret : ret[name] = ValuesSeen(name, yielded)

\* the fragments (x, [1, 2]) then (x, 3) have given x -> [1, 2, 3]
C13_Witness ==
    /\ Accumulated
    /\ yielded = << <<"x", List(<<1, 2>>)>>, <<"x", Scalar(3)>> >>
    /\ ret = [x |-> <<1, 2, 3>>]

(***************************************************************************)
(* Properties of reads, batch reads and assignments.                       *)
(***************************************************************************)
\* the holder name of the property of a read or an assignment
Holder == ValHolderName(op.props[1])

\* a read of a property that an earlier read returned a value of has ended
LaterRead ==
    /\ pc = "done"
    /\ op.kind = "get"
    /\ Holder \in DOMAIN before
    /\ Holder \in DOMAIN first[op.page]

\* a later read returns the value the first read returned, without a request
LaterReadFromCache ==
    LaterRead =>
        /\ outcome = "value"
        /\ ret = first[op.page][Holder]
        /\ attrs[op.page][Holder] = first[op.page][Holder]
        /\ reqs = <<>>

\* C3 as stated: after a first read that returned a value every later read
\* of the property returns the identical value and issues no request, and
\* over any sequence of reads the walk for the property is started at most
\* once.
C3_WalkStartedAtMostOnce ==
    /\ LaterReadFromCache
    /\ \A p \in Pages, q \in ModuleProps : starts[p][q] <= 1

\* C3 as amended: after a first read that returned a value every later read
\* of the property returns the identical value and issues no request, and a
\* read starts the walk for the property only while no value is cached (a
\* read that raised cached nothing, and the next read walks again).
C3_IdempotentCache ==
    /\ LaterReadFromCache
    /\ (op.kind = "get" /\ (pc = "walk" \/ reqs # <<>>)) =>
            Holder \notin DOMAIN before

\* a second read of a property has been answered from the cache
C3_Witness ==
    /\ LaterRead
    /\ outcome = "value"
    /\ reqs = <<>>
    /\ starts[op.page][op.props[1]] = 1

\* C4: a batch read that names a property that already has a cached value
\* issues no request for a group that holds the property and leaves its
\* cached value as it was.
C4_BatchSkipsCached ==
    (op.kind = "batch" /\ pc \in {"walk", "done"}) =>
        \A i \in DOMAIN op.props :
            ValHolderName(op.props[i]) \in DOMAIN before =>
                /\ attrs[op.page][ValHolderName(op.props[i])]
                      = before[ValHolderName(op.props[i])]
                /\ \A j \in DOMAIN reqs :
                      op.props[i] \notin groups[reqs[j].group].properties

\* C5: a batch read that ends with the Requester's failure has cached no
\* property: the attributes of the page are those it had when the batch
\* read started.
C5_NoPartialBatch ==
    (pc = "done" /\ op.kind = "batch" /\ outcome = "TransportError") =>
        attrs[op.page] = before

\* C6: an assignment to a property raises the read-only error and leaves
\* the property as it was, absent or cached.
C6_ReadOnly ==
    (pc = "done" /\ op.kind = "set") =>
        /\ outcome = "AttributeError"
        /\ attrs[op.page] = before

\* an assignment to a cached property has been refused
C6_Witness ==
    /\ pc = "done"
    /\ op.kind = "set"
    /\ Holder \in DOMAIN before
    /\ outcome = "AttributeError"

\* a batch read is in progress or has ended
InBatch == op.kind = "batch" /\ pc \in {"walk", "done"}

\* the properties of a group have their values stored on the page
GroupCached(g) ==
    \A q \in groups[g].properties :
        ValHolderName(q) \in DOMAIN attrs[op.page]

\* C16: a batch read walks the groups in the order the planner returned
\* them: its requests are those of group 1, then those of group 2, and so
\* on, and when a request of a group has been issued the properties of every
\* earlier group have been extracted and stored.
C16_SequentialGroups ==
    InBatch =>
        /\ \A j \in DOMAIN reqs :
              /\ j = 1 => reqs[j].group = 1
              /\ j > 1 => reqs[j].group \in
                              {reqs[j - 1].group, reqs[j - 1].group + 1}
              /\ \A g \in 1..(reqs[j].group - 1) : GroupCached(g)
        /\ \A g \in 1..(gi - 1) : GroupCached(g)

\* a batch read of two groups has ended: a request for each, in order
C16_Witness ==
    /\ InBatch
    /\ pc = "done"
    /\ outcome = "done"
    /\ Len(groups) = 2
    /\ groups[1].properties # {}
    /\ groups[2].properties # {}
    /\ Len(reqs) = 2
    /\ reqs[1].group = 1
    /\ reqs[2].group = 2
    /\ GroupCached(1)
    /\ GroupCached(2)

\* C19: a batch read issues requests only for groups that hold a property:
\* no request is built from the parameters of an empty main group.
C19_NoRequestForEmptyGroup ==
    InBatch =>
        \A j \in DOMAIN reqs : groups[reqs[j].group].properties # {}

(***************************************************************************)
(* Properties of the planner.                                              *)
(***************************************************************************)
Planned == pc = "done" /\ op.kind = "plan"

\* the query parameters computed for a property of the planned collection:
\* the class dict after the call
ParamsOf(prop) == query_params[Owner(prop)]

\* the parameter names of a property's template
TemplateNames(prop) ==
    IF prop = "Summary"
    THEN {"prop", "explaintext", "exintro", "exsentences", "exchars"}
    ELSE DOMAIN declared[Owner(prop)]

IsGeneratorBearing(prop) == "generator" \in DOMAIN ParamsOf(prop)

\* the groups that hold a property
GroupsOf(prop) == {g \in DOMAIN groups : prop \in groups[g].properties}

\* C7: for two non-generator properties whose templates have disjoint
\* parameter names, the planner returns exactly one group, which holds both.
C7_DisjointMerged ==
    (/\ Planned
     /\ Len(op.props) = 2
     /\ ~IsGeneratorBearing(op.props[1])
     /\ ~IsGeneratorBearing(op.props[2])
     /\ TemplateNames(op.props[1]) \cap TemplateNames(op.props[2]) = {}) =>
        /\ Len(groups) = 1
        /\ groups[1].properties = {op.props[1], op.props[2]}

\* two non-generator properties with different values for a parameter name
Conflicting(p, q) ==
    /\ ~IsGeneratorBearing(p)
    /\ ~IsGeneratorBearing(q)
    /\ \E k \in (DOMAIN ParamsOf(p)) \cap (DOMAIN ParamsOf(q)) :
          ParamsOf(p)[k] # ParamsOf(q)[k]

C9_GeneratorIsolation ==
    Planned =>
        /\ "generator" \notin DOMAIN groups[1].query_params
        /\ \A i \in DOMAIN op.props :
              IsGeneratorBearing(op.props[i]) =>
                  \E g \in 2..Len(groups) :
                      /\ GroupsOf(op.props[i]) = {g}
                      /\ groups[g].properties = {op.props[i]}
                      /\ groups[g].query_params = ParamsOf(op.props[i])

\* Images planned before a property that shares its parameter name prop
C9_Witness ==
    /\ Planned
    /\ op.props = <<"Images", "Content">>
    /\ groups[2].properties = {"Images"}
    /\ groups[1].properties = {"Content"}

\* C10: the property sets of the returned groups are pairwise disjoint and
\* their union is the planned collection: every property of the collection
\* is in exactly one group.
C10_Partition ==
    Planned =>
        /\ \A i \in DOMAIN op.props : Cardinality(GroupsOf(op.props[i])) = 1
        /\ \A g \in DOMAIN groups :
              groups[g].properties \subseteq {op.props[i] : i \in DOMAIN op.props}

\* a collection of two properties planned into two groups
C10_Witness ==
    /\ Planned
    /\ Len(op.props) = 2
    /\ Len(groups) = 2
    /\ groups[1].properties # {}
    /\ groups[2].properties # {}

\* the identity parameter of the planned page is among a group's parameters
CarriesIdentity(g) ==
    \A k \in DOMAIN TitleQueryParam(op.page) :
        /\ k \in DOMAIN groups[g].query_params
        /\ groups[g].query_params[k] = TitleQueryParam(op.page)[k]

\* C11: every group the planner returns for a page, the main group included,
\* has the page's identity parameter (titles or pageids) among its merged
\* parameters, whatever the planned collection.
C11_IdentityOnEveryGroup ==
    Planned => \A g \in DOMAIN groups : CarriesIdentity(g)

\* two non-generator properties that share a parameter name of their
\* templates and have equal values for every name they share
Agreeing(p, q) ==
    /\ ~IsGeneratorBearing(p)
    /\ ~IsGeneratorBearing(q)
    /\ TemplateNames(p) \cap TemplateNames(q) # {}
    /\ \A k \in (DOMAIN ParamsOf(p)) \cap (DOMAIN ParamsOf(q)) :
          ParamsOf(p)[k] = ParamsOf(q)[k]

\* C15: a property that does not conflict is merged into the main group:
\* each of its names that is new there is set to its value, and a name
\* already there with the same value (prop=extracts asked twice, the
\* identity parameter of the page) keeps that value, not joined to itself
\* with a pipe.
C15_MergeInMainGroup ==
    (/\ Planned
     /\ Len(op.props) = 2
     /\ Agreeing(op.props[1], op.props[2])) =>
        /\ groups[1].properties = {op.props[1], op.props[2]}
        /\ groups[1].query_params =
              Update(ParamsOf(op.props[1]), ParamsOf(op.props[2]))

(***************************************************************************)
(* Properties of the query parameters of a property.                       *)
(***************************************************************************)
\* a read has computed the query parameters of its property
ReadComputed == op.kind = "get" /\ groups # NoGroups

\* C12: the query parameters computed for a property on a page have exactly
\* one of titles / pageids: titles, with the page's title, when the page has
\* a title, and pageids, with the page's id, otherwise, whatever was
\* computed before, for this page or another.
C12_ExactlyOneIdentity ==
    ReadComputed =>
        LET params == groups[1].query_params
        IN  /\ Cardinality({"titles", "pageids"} \cap DOMAIN params) = 1
            /\ \A k \in DOMAIN TitleQueryParam(op.page) :
                  /\ k \in DOMAIN params
                  /\ params[k] = TitleQueryParam(op.page)[k]

\* the parameters of Summary have been computed with call-time options
Tuned == pc = "done" /\ op.kind = "params"

TuningNames == {"exsentences", "exchars", "exintro"}

\* C18: the parameters computed for Summary have exactly one of
\* exsentences, exchars and exintro: exsentences, the count clamped into
\* 1..10, for a sentence count above 0; otherwise exchars, at least 1, for a
\* character count above 0; exintro when neither is given; whatever the
\* options of earlier calls were.
C18_SummaryTuning ==
    Tuned =>
        LET params == groups[1].query_params
            given == TuningNames \cap DOMAIN params
        IN  IF op.sentences > 0
            THEN /\ given = {"exsentences"}
                 /\ params["exsentences"] =
                       NumStr(IF op.sentences > 10 THEN 10 ELSE op.sentences)
            ELSE IF op.chars > 0
            THEN /\ given = {"exchars"}
                 /\ params["exchars"] = NumStr(op.chars)
            ELSE /\ given = {"exintro"}

\* C14: computing a property's query parameters, planning and reading leave
\* the class attribute query_params of every property definition, the one of
\* the base class included, as it was declared.
C14_TemplatesUnchanged == query_params = declared

====
